---- MODULE Spec2Model ----
(***************************************************************************)
(* Model of generate_diff_doc.py: one run of generate_markdown, from the   *)
(* first backend call (git diff --name-status) to the write of the report. *)
(*                                                                         *)
(* Strings are sequences of character codes, so that str.split('/') and    *)
(* the code-point order used by sorted() are computed, not assumed.        *)
(* A Python dict is a sequence of [key, val] entries in insertion order.   *)
(***************************************************************************)
EXTENDS Integers, Sequences, FiniteSets, TLC

VARIABLES
    pc,             \* the backend call or step generate_markdown is at
    added, modified, deleted, renamed,   \* what get_changed_files returned
    all_files,      \* dict path -> record, lines 167-178
    tree,           \* <<>> until built, then <<the aggregated sorted tree>>
    md_content,     \* the entries appended so far
    files_to_diff,  \* line 202
    file_no,        \* i + 1 of line 208: the file the loop is at, from 1
    calls,          \* history: every run_command call and how it ended
    writes,         \* number of times the report file was written
    exit_code       \* <<>> while running, then <<status>>

vars == <<pc, added, modified, deleted, renamed, all_files, tree,
          md_content, files_to_diff, file_no, calls, writes, exit_code>>

----------------------------------------------------------------------------
(* Bounds of the model *)

\* most paths one backend listing reports
MaxFiles == 3
\* largest per-file additions or deletions count the backend reports
MaxCount == 1

(* Program constants *)

\* '/', the separator of file_path.split('/')
Slash == 47
\* numstat prints '-' for the counts of a binary file; encoded as -1
Binary == -1

\* The paths the backend may report: "a", "a-b", "a/b", "a/c", "a/d/e".
\* "a" is also a directory prefix of three others, and "a-b" sorts before
\* "a/b" as a string although "a" < "a-b" as a first segment.
Paths ==
    { <<97>>, <<97, 45, 98>>, <<97, 47, 98>>, <<97, 47, 99>>,
      <<97, 47, 100, 47, 101>> }

\* the old path of the rename whose new path is p: "o" followed by p
OldPathOf(p) == <<111>> \o p

----------------------------------------------------------------------------
(* Strings *)

\* Python's str < str: code-point lexicographic, a proper prefix is smaller
RECURSIVE StrLess(_, _)
StrLess(s, t) ==
    IF t = <<>> THEN FALSE
    ELSE IF s = <<>> THEN TRUE
    ELSE IF Head(s) # Head(t) THEN Head(s) < Head(t)
    ELSE StrLess(Tail(s), Tail(t))

\* str.split('/'): the segments between separators, empty ones included
RECURSIVE SplitFrom(_, _, _)
SplitFrom(s, cur, acc) ==
    IF s = <<>> THEN Append(acc, cur)
    ELSE IF Head(s) = Slash THEN SplitFrom(Tail(s), <<>>, Append(acc, cur))
    ELSE SplitFrom(Tail(s), Append(cur, Head(s)), acc)

Split(s) == SplitFrom(s, <<>>, <<>>)

----------------------------------------------------------------------------
(* dict *)

\* key in d
DictHas(d, k) == \E i \in 1..Len(d) : d[i].key = k

DictIndex(d, k) == CHOOSE i \in 1..Len(d) : d[i].key = k

\* d[key]
DictGet(d, k) == d[DictIndex(d, k)].val

\* d[key] = v: an existing key keeps its position, a new key goes last
DictSet(d, k, v) ==
    IF DictHas(d, k)
    THEN [d EXCEPT ![DictIndex(d, k)] = [key |-> k, val |-> v]]
    ELSE Append(d, [key |-> k, val |-> v])

\* d.get(field, 0) on a record
Get(rec, field) == IF field \in DOMAIN rec THEN rec[field] ELSE 0

\* sorted(list of str)
RECURSIVE InsertStr(_, _)
InsertStr(sorted, s) ==
    IF sorted = <<>> THEN <<s>>
    ELSE IF StrLess(s, Head(sorted)) THEN <<s>> \o sorted
    ELSE <<Head(sorted)>> \o InsertStr(Tail(sorted), s)

RECURSIVE SortedStrs(_)
SortedStrs(xs) ==
    IF xs = <<>> THEN <<>>
    ELSE InsertStr(SortedStrs(SubSeq(xs, 1, Len(xs) - 1)), xs[Len(xs)])

----------------------------------------------------------------------------
(* generate_tree_structure *)

\* {'children': {}, 'stats': {}}
NewDir == [children |-> <<>>, stats |-> <<>>]

\* faulty variant: a rename, whose counts are not shown, gets total 0
WithTotalHidingRenames(file_info) ==
    [f \in DOMAIN file_info \cup {"total_changes"} |->
        IF f = "total_changes"
        THEN IF file_info.status = "Renamed" THEN 0
             ELSE Get(file_info, "additions") + Get(file_info, "deletions")
        ELSE file_info[f]]

\* file_info['total_changes'] = additions + deletions
WithTotal(file_info) ==
    [f \in DOMAIN file_info \cup {"total_changes"} |->
        IF f = "total_changes"
        THEN Get(file_info, "additions") + Get(file_info, "deletions")
        ELSE file_info[f]]

\* One iteration of the loop over files.items(), on the children dict
\* `level`: walk or create a directory per leading part, then store the
\* file under its last part.  current_level[part]['children'] raises
\* KeyError when current_level[part] is a file record: err is TRUE then.
RECURSIVE InsertFile(_, _, _)
InsertFile(level, parts, file_info) ==
    IF Len(parts) = 1
    THEN [err |-> FALSE, val |-> DictSet(level, parts[1], WithTotal(file_info))]
    ELSE LET part == Head(parts)
             lvl == IF DictHas(level, part) THEN level
                    ELSE DictSet(level, part, NewDir)
             node == DictGet(lvl, part)
         IN IF "children" \notin DOMAIN node
            THEN [err |-> TRUE, val |-> level]
            ELSE LET sub == InsertFile(node.children, Tail(parts), file_info)
                 IN IF sub.err THEN [err |-> TRUE, val |-> level]
                    ELSE [err |-> FALSE,
                          val |-> DictSet(lvl, part,
                                      [node EXCEPT !.children = sub.val])]

RECURSIVE InsertAll(_, _)
InsertAll(level, files) ==
    IF files = <<>> THEN [err |-> FALSE, val |-> level]
    ELSE LET r == InsertFile(level, Split(Head(files).key), Head(files).val)
         IN IF r.err THEN r ELSE InsertAll(r.val, Tail(files))

\* [err, val]: val is the tree when no KeyError was raised
generate_tree_structure(files) ==
    LET r == InsertAll(<<>>, files)
    IN [err |-> r.err, val |-> [children |-> r.val, stats |-> <<>>]]

----------------------------------------------------------------------------
(* calculate_and_sort_tree_stats *)

IsFile(content) == "status" \in DOMAIN content

\* the sort key of line 128
SortKey(content) ==
    IF IsFile(content) THEN Get(content, "total_changes")
    ELSE Get(content.stats, "total_changes")

\* faulty variant: the directory branch of lines 115-117 is missing
ContributionFilesOnly(content, field) ==
    IF IsFile(content) THEN Get(content, field) ELSE 0

\* what one child adds to total_additions / total_deletions (lines 111-117)
Contribution(content, field) ==
    IF IsFile(content) THEN Get(content, field)
    ELSE IF "stats" \in DOMAIN content THEN Get(content.stats, field)
    ELSE 0

RECURSIVE SumChildren(_, _)
SumChildren(children, field) ==
    IF children = <<>> THEN 0
    ELSE Contribution(Head(children).val, field)
         + SumChildren(Tail(children), field)

\* faulty variant: an item goes before the items of equal key (unstable)
RECURSIVE InsertByKeyTiesFirst(_, _)
InsertByKeyTiesFirst(sorted, item) ==
    IF sorted = <<>> THEN <<item>>
    ELSE IF SortKey(item.val) <= SortKey(Head(sorted).val)
         THEN <<item>> \o sorted
         ELSE <<Head(sorted)>> \o InsertByKeyTiesFirst(Tail(sorted), item)

\* sorted(items, key=...): stable, ascending
RECURSIVE InsertByKey(_, _)
InsertByKey(sorted, item) ==
    IF sorted = <<>> THEN <<item>>
    ELSE IF SortKey(item.val) < SortKey(Head(sorted).val)
         THEN <<item>> \o sorted
         ELSE <<Head(sorted)>> \o InsertByKey(Tail(sorted), item)

RECURSIVE SortChildren(_)
SortChildren(children) ==
    IF children = <<>> THEN <<>>
    ELSE InsertByKey(SortChildren(SubSeq(children, 1, Len(children) - 1)),
                     children[Len(children)])

\* the stats dict of lines 119-123
DirStats(children) ==
    [additions |-> SumChildren(children, "additions"),
     deletions |-> SumChildren(children, "deletions"),
     total_changes |-> SumChildren(children, "additions")
                       + SumChildren(children, "deletions")]

\* the node as the call leaves it (the code mutates it in place)
RECURSIVE calculate_and_sort_tree_stats(_)
calculate_and_sort_tree_stats(node) ==
    IF "children" \notin DOMAIN node THEN node
    ELSE LET kids == [i \in 1..Len(node.children) |->
                        [key |-> node.children[i].key,
                         val |-> calculate_and_sort_tree_stats(
                                     node.children[i].val)]]
         IN [children |-> SortChildren(kids), stats |-> DirStats(kids)]

----------------------------------------------------------------------------
(* format_tree *)

Corner == "corner"   \* the glyph of the last child, line 137
Branch == "branch"   \* the glyph of the others
Blank == "blank"     \* four spaces, line 156
Bar == "bar"         \* the vertical bar and three spaces

\* faulty variant: a rename is formatted like any other file
FileLineWithCounts(indent, connector, name, content) ==
    [indent |-> indent, connector |-> connector, name |-> name,
     label |-> content.status,
     additions |-> Get(content, "additions"),
     deletions |-> Get(content, "deletions")]

\* One emitted line, as the fields its f-string interpolates, in order.
\* indent is the sequence of four-character units of the indent string.
FileLine(indent, connector, name, content) ==
    IF content.status = "Renamed"
    THEN [indent |-> indent, connector |-> connector, name |-> name,
          old_path |-> content.old_path, label |-> "Renamed"]
    ELSE [indent |-> indent, connector |-> connector, name |-> name,
          label |-> content.status,
          additions |-> Get(content, "additions"),
          deletions |-> Get(content, "deletions")]

DirLine(indent, connector, name, content) ==
    [indent |-> indent, connector |-> connector, name |-> name,
     slash |-> TRUE, label |-> "Modified",
     additions |-> Get(content.stats, "additions"),
     deletions |-> Get(content.stats, "deletions")]

\* line 137
Connector(i, n) == IF i = n THEN Corner ELSE Branch

\* faulty variant: the indent is a bar unit per level, whatever the parent
ChildIndentByDepth(indent, i, n) == Append(indent, Bar)

\* the indent passed down at line 156
ChildIndent(indent, i, n) == Append(indent, IF i = n THEN Blank ELSE Bar)

RECURSIVE FormatFrom(_, _, _)
RECURSIVE format_tree(_, _)

\* the loop body for items[i], then the rest of the loop
FormatFrom(items, i, indent) ==
    IF i > Len(items) THEN <<>>
    ELSE LET name == items[i].key
             content == items[i].val
             connector == Connector(i, Len(items))
             here ==
                 IF IsFile(content)
                 THEN <<FileLine(indent, connector, name, content)>>
                 ELSE <<DirLine(indent, connector, name, content)>>
                      \o format_tree(content.children,
                                     ChildIndent(indent, i, Len(items)))
         IN here \o FormatFrom(items, i + 1, indent)

format_tree(children, indent) == FormatFrom(children, 1, indent)

----------------------------------------------------------------------------
(* The backend (git), as far as the program depends on it *)

\* p names a directory above q
IsDirPrefix(p, q) ==
    /\ Len(p) < Len(q)
    /\ SubSeq(q, 1, Len(p)) = p
    /\ q[Len(p) + 1] = Slash

\* no path of S is a directory of another: S can be the files of one ref
PrefixFree(S) == \A p \in S : \A q \in S : ~IsDirPrefix(p, q)

\* A status letter per changed path that two refs can produce: the paths
\* present in the base ref (D, M) and those present in the feature ref
\* (A, M, new side of R) are each the files of one ref.
ValidListing(st) ==
    /\ PrefixFree({p \in DOMAIN st : st[p] \in {"D", "M"}})
    /\ PrefixFree({p \in DOMAIN st : st[p] \in {"A", "M", "R"}})

Listings ==
    UNION { {st \in [S -> {"A", "M", "D", "R"}] : ValidListing(st)} :
            S \in {T \in SUBSET Paths : Cardinality(T) <= MaxFiles} }

\* the paths of a set in the order git prints them
RECURSIVE InPathOrder(_)
InPathOrder(S) ==
    IF S = {} THEN <<>>
    ELSE LET m == CHOOSE p \in S : \A q \in S \ {p} : StrLess(p, q)
         IN <<m>> \o InPathOrder(S \ {m})

\* the lines of git diff --name-status, each split on tabs:
\* status, then the path, or the old and the new path of a rename
NameStatusOutput(st) ==
    LET order == InPathOrder(DOMAIN st)
    IN [i \in 1..Len(order) |->
          [status |-> st[order[i]],
           files |-> IF st[order[i]] = "R"
                     THEN <<OldPathOf(order[i]), order[i]>>
                     ELSE <<order[i]>>]]

\* the count columns git diff --numstat may print for one path
NumstatColumns ==
    {<<Binary, Binary>>} \cup ((0..MaxCount) \X (0..MaxCount))

\* numstat outputs for a listing: a line for some of the listed paths
NumstatOutputs(st) ==
    UNION { [S -> NumstatColumns] : S \in SUBSET (DOMAIN st) }

----------------------------------------------------------------------------
(* get_changed_files, get_diff_stats: parsing *)

RECURSIVE ParseNameStatus(_, _)
ParseNameStatus(output, acc) ==
    IF output = <<>> THEN acc
    ELSE LET line == Head(output)
             next ==
                 IF line.status = "A"
                 THEN [acc EXCEPT !.added = Append(@, line.files[1])]
                 ELSE IF line.status = "M"
                 THEN [acc EXCEPT !.modified = Append(@, line.files[1])]
                 ELSE IF line.status = "D"
                 THEN [acc EXCEPT !.deleted = Append(@, line.files[1])]
                 ELSE IF line.status = "R"
                 THEN [acc EXCEPT !.renamed =
                          Append(@, <<line.files[1], line.files[2]>>)]
                 ELSE acc
         IN ParseNameStatus(Tail(output), next)

get_changed_files(output) ==
    ParseNameStatus(output,
        [added |-> <<>>, modified |-> <<>>, deleted |-> <<>>,
         renamed |-> <<>>])

\* 0 if added == '-' else int(added)
CountOf(column) == IF column = Binary THEN 0 ELSE column

\* the stats dict: path -> (added_val, deleted_val)
get_diff_stats(output) ==
    [p \in DOMAIN output |-> <<CountOf(output[p][1]), CountOf(output[p][2])>>]

\* stats.get(f, (0, 0))
StatsGet(st, f) == IF f \in DOMAIN st THEN st[f] ELSE <<0, 0>>

----------------------------------------------------------------------------
(* generate_markdown: the records of all_files, lines 167-178 *)

AddedInfo(st, f) ==
    [status |-> "Added", additions |-> StatsGet(st, f)[1],
     deletions |-> StatsGet(st, f)[2]]

ModifiedInfo(st, f) ==
    [status |-> "Modified", additions |-> StatsGet(st, f)[1],
     deletions |-> StatsGet(st, f)[2]]

RenamedInfo(st, old, new) ==
    [status |-> "Renamed", old_path |-> old,
     additions |-> StatsGet(st, new)[1],
     deletions |-> StatsGet(st, new)[2]]

DeletedInfo == [status |-> "Deleted", additions |-> 0, deletions |-> 0]

RECURSIVE PutAdded(_, _, _)
PutAdded(d, fs, st) ==
    IF fs = <<>> THEN d
    ELSE PutAdded(DictSet(d, Head(fs), AddedInfo(st, Head(fs))), Tail(fs), st)

RECURSIVE PutModified(_, _, _)
PutModified(d, fs, st) ==
    IF fs = <<>> THEN d
    ELSE PutModified(DictSet(d, Head(fs), ModifiedInfo(st, Head(fs))),
                     Tail(fs), st)

RECURSIVE PutRenamed(_, _, _)
PutRenamed(d, rs, st) ==
    IF rs = <<>> THEN d
    ELSE PutRenamed(DictSet(d, Head(rs)[2],
                            RenamedInfo(st, Head(rs)[1], Head(rs)[2])),
                    Tail(rs), st)

RECURSIVE PutDeleted(_, _)
PutDeleted(d, fs) ==
    IF fs = <<>> THEN d
    ELSE PutDeleted(DictSet(d, Head(fs), DeletedInfo), Tail(fs))

CollectFiles(a, m, r, del, st) ==
    PutDeleted(PutRenamed(PutModified(PutAdded(<<>>, a, st), m, st), r, st),
               del)

\* faulty variant: the concatenation is not sorted
FilesToDiffUnsorted(a, m, r) ==
    a \o m \o [i \in 1..Len(r) |-> r[i][2]]

\* added + modified + [new for old, new in renamed], sorted (line 202)
FilesToDiff(a, m, r) ==
    SortedStrs(a \o m \o [i \in 1..Len(r) |-> r[i][2]])

----------------------------------------------------------------------------
(* generate_markdown: the entries appended to md_content *)

Item(kind, arg) == [kind |-> kind, arg |-> arg]

\* lines 182-187: title, timestamp, introduction, summary heading
Preamble ==
    <<Item("title", <<>>), Item("generated_on", <<>>),
      Item("introduction", <<>>), Item("summary_heading", <<>>)>>

\* lines 192-194: the fenced tree
TreeBlock(lines) ==
    <<Item("fence", <<>>)>>
    \o [i \in 1..Len(lines) |-> Item("tree_line", lines[i])]
    \o <<Item("fence_end", <<>>)>>

\* line 196
NoChanges == <<Item("no_changes", <<>>)>>

\* lines 199-200
DetailHeading == <<Item("rule", <<>>), Item("detail_heading", <<>>)>>

\* line 205
NothingToDisplay == <<Item("nothing_to_display", <<>>)>>

\* lines 212-216: heading, fenced diff text of the path
DiffSection(file_path) ==
    <<Item("file_heading", file_path), Item("diff_fence", <<>>),
      Item("diff_text", file_path), Item("fence_end", <<>>)>>

\* lines 218-219: heading, error note
ErrorSection(file_path) ==
    <<Item("file_heading", file_path), Item("error_note", file_path)>>

----------------------------------------------------------------------------
(* generate_markdown, lines 165-205: from the stats to the diff loop *)

\* faulty variant: the fenced block is emitted even without files
SummarySectionAlwaysTree(files, sorted) ==
    TreeBlock(format_tree(sorted.children, <<>>))

\* lines 189-196: the fenced tree, or the marker when there are no files
SummarySection(files, sorted) ==
    IF files # <<>>
    THEN TreeBlock(format_tree(sorted.children, <<>>))
    ELSE NoChanges

\* [err, tree, md]: err when generate_tree_structure raised KeyError; else
\* the tree (if one was built) and md_content up to the diff loop
Summarise(files, to_diff) ==
    LET built == generate_tree_structure(files)
        sorted == calculate_and_sort_tree_stats(built.val)
        summary == SummarySection(files, sorted)
        detail == IF to_diff = <<>> THEN NothingToDisplay ELSE <<>>
    IN IF files # <<>> /\ built.err
       THEN [err |-> TRUE, tree |-> <<>>, md |-> Preamble]
       ELSE [err |-> FALSE,
             tree |-> IF files # <<>> THEN <<sorted>> ELSE <<>>,
             md |-> Preamble \o summary \o DetailHeading \o detail]

----------------------------------------------------------------------------
(* The run *)

Call(op, path, outcome) == [op |-> op, path |-> path, outcome |-> outcome]

\* the paths of the listing, as the numstat output can name them
ListedPaths ==
    {added[k] : k \in 1..Len(added)}
    \cup {modified[k] : k \in 1..Len(modified)}
    \cup {deleted[k] : k \in 1..Len(deleted)}
    \cup {renamed[k][2] : k \in 1..Len(renamed)}

ListedStatus ==
    [p \in ListedPaths |->
        IF \E k \in 1..Len(added) : added[k] = p THEN "A"
        ELSE IF \E k \in 1..Len(modified) : modified[k] = p THEN "M"
        ELSE IF \E k \in 1..Len(deleted) : deleted[k] = p THEN "D"
        ELSE "R"]

\* the backend call the run is waiting on
PendingPath == IF pc = "get_file_diff" THEN files_to_diff[file_no] ELSE <<>>

Init ==
    /\ pc = "get_changed_files"
    /\ added = <<>> /\ modified = <<>> /\ deleted = <<>> /\ renamed = <<>>
    /\ all_files = <<>>
    /\ tree = <<>>
    /\ md_content = <<>>
    /\ files_to_diff = <<>>
    /\ file_no = 1
    /\ calls = <<>>
    /\ writes = 0
    /\ exit_code = <<>>

\* line 162: git diff --name-status succeeds
GetChangedFiles ==
    /\ pc = "get_changed_files"
    /\ \E st \in Listings :
          LET r == get_changed_files(NameStatusOutput(st))
          IN /\ added' = r.added
             /\ modified' = r.modified
             /\ deleted' = r.deleted
             /\ renamed' = r.renamed
    /\ calls' = Append(calls, Call(pc, <<>>, "ok"))
    /\ pc' = "get_diff_stats"
    /\ UNCHANGED <<all_files, tree, md_content, files_to_diff, file_no,
                   writes, exit_code>>

\* lines 163-205: git diff --numstat succeeds; the records, the summary
\* tree and the list of files to diff are built.  A KeyError raised by
\* generate_tree_structure is caught nowhere: the interpreter exits 1.
GetDiffStats ==
    /\ pc = "get_diff_stats"
    /\ \E output \in NumstatOutputs(ListedStatus) :
          LET st == get_diff_stats(output)
              files == CollectFiles(added, modified, renamed, deleted, st)
              to_diff == FilesToDiff(added, modified, renamed)
              s == Summarise(files, to_diff)
          IN /\ all_files' = files
             /\ tree' = s.tree
             /\ md_content' = s.md
             /\ files_to_diff' = IF s.err THEN <<>> ELSE to_diff
             /\ pc' = IF s.err THEN "exited"
                      ELSE IF to_diff = <<>> THEN "write"
                      ELSE "get_file_diff"
             /\ exit_code' = IF s.err THEN <<1>> ELSE <<>>
    /\ calls' = Append(calls, Call(pc, <<>>, "ok"))
    /\ UNCHANGED <<added, modified, deleted, renamed, file_no, writes>>

\* the loop of line 208 moves on from files_to_diff[file_no]
AfterFile ==
    /\ file_no' = file_no + 1
    /\ pc' = IF file_no = Len(files_to_diff) THEN "write" ELSE "get_file_diff"

\* lines 211-216: git diff --unified=10 -- file_path succeeds
GetFileDiff ==
    /\ pc = "get_file_diff"
    /\ md_content' = md_content \o DiffSection(files_to_diff[file_no])
    /\ calls' = Append(calls, Call(pc, files_to_diff[file_no], "ok"))
    /\ AfterFile
    /\ UNCHANGED <<added, modified, deleted, renamed, all_files, tree,
                   files_to_diff, writes, exit_code>>

\* lines 217-219: get_file_diff raises an Exception that run_command does
\* not handle (subprocess.run cannot decode the diff as UTF-8)
GetFileDiffRaises ==
    /\ pc = "get_file_diff"
    /\ md_content' = md_content \o ErrorSection(files_to_diff[file_no])
    /\ calls' = Append(calls, Call(pc, files_to_diff[file_no], "undecodable"))
    /\ AfterFile
    /\ UNCHANGED <<added, modified, deleted, renamed, all_files, tree,
                   files_to_diff, writes, exit_code>>

\* run_command, lines 19-25: both handlers print and call sys.exit(1).
\* SystemExit is not an Exception, so the except clause of line 217 does
\* not catch it: the run ends here whichever call was being made.
RunCommandExits(outcome) ==
    /\ calls' = Append(calls, Call(pc, PendingPath, outcome))
    /\ pc' = "exited"
    /\ exit_code' = <<1>>
    /\ UNCHANGED <<added, modified, deleted, renamed, all_files, tree,
                   md_content, files_to_diff, file_no, writes>>

\* the steps at which run_command is waiting on the backend
BackendCalls == {"get_changed_files", "get_diff_stats", "get_file_diff"}

\* lines 19-21: FileNotFoundError, git is not installed
BackendMissing ==
    /\ pc \in BackendCalls
    /\ RunCommandExits("missing")

\* lines 22-25: CalledProcessError, git returned a failure
BackendError ==
    /\ pc \in BackendCalls
    /\ RunCommandExits("failed")

\* lines 222-226: the report is written and the run ends with status 0
WriteReport ==
    /\ pc = "write"
    /\ writes' = writes + 1
    /\ pc' = "done"
    /\ exit_code' = <<0>>
    /\ UNCHANGED <<added, modified, deleted, renamed, all_files, tree,
                   md_content, files_to_diff, file_no, calls>>

Next ==
    \/ GetChangedFiles
    \/ GetDiffStats
    \/ GetFileDiff
    \/ GetFileDiffRaises
    \/ BackendMissing
    \/ BackendError
    \/ WriteReport

Spec == Init /\ [][Next]_vars

----------------------------------------------------------------------------
(* Vocabulary of the properties *)

\* the root node once the summary tree has been built
Root == tree[1]

RECURSIVE SumRecords(_, _)
SumRecords(files, field) ==
    IF files = <<>> THEN 0
    ELSE Head(files).val[field] + SumRecords(Tail(files), field)

\* additions or deletions a child stands for: a file's own, a directory's
\* aggregate
OwnOrAggregate(content, field) ==
    IF "status" \in DOMAIN content THEN content[field]
    ELSE content.stats[field]

RECURSIVE SumOwnOrAggregate(_, _)
SumOwnOrAggregate(children, field) ==
    IF children = <<>> THEN 0
    ELSE OwnOrAggregate(Head(children).val, field)
         + SumOwnOrAggregate(Tail(children), field)

\* sum of a field over the file leaves at or below a node
RECURSIVE LeafSum(_, _)
RECURSIVE LeafSumOver(_, _)
LeafSum(content, field) ==
    IF "status" \in DOMAIN content THEN content[field]
    ELSE LeafSumOver(content.children, field)
LeafSumOver(children, field) ==
    IF children = <<>> THEN 0
    ELSE LeafSum(Head(children).val, field)
         + LeafSumOver(Tail(children), field)

RECURSIVE HasRenamedLeaf(_)
HasRenamedLeaf(content) ==
    IF "status" \in DOMAIN content THEN content.status = "Renamed"
    ELSE \E k \in 1..Len(content.children) :
            HasRenamedLeaf(content.children[k].val)

\* total_changes as the sort reads it
TotalOf(content) ==
    IF "status" \in DOMAIN content THEN content.total_changes
    ELSE content.stats.total_changes

\* s is a prefix of t (sequences of path segments)
IsSegPrefix(s, t) == Len(s) <= Len(t) /\ SubSeq(t, 1, Len(s)) = s

\* position in all_files of the first record whose path runs through the
\* entry `name` of the directory `dir` (a sequence of segments): the loop
\* iteration of generate_tree_structure that inserted that entry
FirstInserted(dir, name) ==
    CHOOSE k \in 1..Len(all_files) :
        /\ IsSegPrefix(Append(dir, name), Split(all_files[k].key))
        /\ \A j \in 1..(k - 1) :
              ~IsSegPrefix(Append(dir, name), Split(all_files[j].key))

\* the entries of the tree in pre-order, each as the sequence of child
\* positions leading to it from the root
RECURSIVE EntriesFrom(_, _, _)
EntriesFrom(children, k, above) ==
    IF k > Len(children) THEN <<>>
    ELSE <<Append(above, k)>>
         \o (IF "children" \in DOMAIN children[k].val
             THEN EntriesFrom(children[k].val.children, 1, Append(above, k))
             ELSE <<>>)
         \o EntriesFrom(children, k + 1, above)

Entries == EntriesFrom(Root.children, 1, <<>>)

\* the children list that holds the entry at position sequence `at`
RECURSIVE SiblingsAt(_, _)
SiblingsAt(children, at) ==
    IF Len(at) = 1 THEN children
    ELSE SiblingsAt(children[Head(at)].val.children, Tail(at))

EntryAt(at) == SiblingsAt(Root.children, at)[at[Len(at)]]

IsLastChild(at) == at[Len(at)] = Len(SiblingsAt(Root.children, at))

IsTreeLine(item) == item.kind = "tree_line"
IsFileHeading(item) == item.kind = "file_heading"
IsDiffCall(call) == call.op = "get_file_diff"

\* the lines of the fenced tree of the report, in order
TreeLines ==
    LET items == SelectSeq(md_content, IsTreeLine)
    IN [k \in 1..Len(items) |-> items[k].arg]

\* the paths of the subsections of the detailed section, in order
SectionPaths ==
    LET items == SelectSeq(md_content, IsFileHeading)
    IN [k \in 1..Len(items) |-> items[k].arg]

\* the paths of the per-file diff calls, in order
DiffCallPaths ==
    LET cs == SelectSeq(calls, IsDiffCall)
    IN [k \in 1..Len(cs) |-> cs[k].path]

Kinds(items) == [k \in 1..Len(items) |-> items[k].kind]

\* the file leaf stored under a path, if the tree holds one
RECURSIVE HasLeaf(_, _, _)
HasLeaf(children, parts, status) ==
    \E k \in 1..Len(children) :
        /\ children[k].key = Head(parts)
        /\ IF Len(parts) = 1
           THEN /\ "status" \in DOMAIN children[k].val
                /\ children[k].val.status = status
           ELSE /\ "children" \in DOMAIN children[k].val
                /\ HasLeaf(children[k].val.children, Tail(parts), status)

ContentPaths ==
    {added[k] : k \in 1..Len(added)}
    \cup {modified[k] : k \in 1..Len(modified)}
    \cup {renamed[k][2] : k \in 1..Len(renamed)}

DeletedPaths == {deleted[k] : k \in 1..Len(deleted)}

----------------------------------------------------------------------------
(* Properties *)

\* C1: once the tree has been built and aggregated, the root's aggregate
\* additions and deletions are the sums of the additions and of the
\* deletions of all records of the mapping, whatever the paths are.
C1_RootAggregateIsSumOfRecords ==
    tree # <<>> =>
        /\ Root.stats.additions = SumRecords(all_files, "additions")
        /\ Root.stats.deletions = SumRecords(all_files, "deletions")

\* C2: a per-file diff call that the backend fails does not end the run:
\* the file's section carries an error note and the run goes on to the
\* remaining files and the write.
C2_FailedDiffDoesNotAbort ==
    \A k \in 1..Len(calls) :
        (calls[k].op = "get_file_diff" /\ calls[k].outcome = "failed") =>
            /\ pc # "exited"
            /\ \E n \in 1..Len(md_content) :
                  /\ md_content[n].kind = "error_note"
                  /\ md_content[n].arg = calls[k].path

\* C3: a missing backend or a failed listing or stats call ends the run at
\* once with a non-zero status and no report; a run in which no backend
\* call failed ends with status zero, having written the report exactly
\* once after a diff call for every file to diff.
C3_ExitBehaviour ==
    /\ \A k \in 1..Len(calls) :
          (/\ calls[k].op \in {"get_changed_files", "get_diff_stats"}
           /\ calls[k].outcome # "ok") =>
              /\ k = Len(calls)
              /\ pc = "exited"
              /\ exit_code = <<1>>
              /\ writes = 0
    /\ (/\ exit_code # <<>>
        /\ \A k \in 1..Len(calls) : calls[k].outcome = "ok") =>
           /\ exit_code = <<0>>
           /\ writes = 1
           /\ DiffCallPaths = files_to_diff

\* the children of node (the directory `dir`) and of every directory below
\* it are in non-decreasing order of total_changes, ties in the order of
\* first insertion
RECURSIVE SortedBelow(_, _)
SortedBelow(node, dir) ==
    /\ \A x \in 1..Len(node.children) : \A y \in (x + 1)..Len(node.children) :
          /\ TotalOf(node.children[x].val) <= TotalOf(node.children[y].val)
          /\ TotalOf(node.children[x].val) = TotalOf(node.children[y].val) =>
                FirstInserted(dir, node.children[x].key)
                    < FirstInserted(dir, node.children[y].key)
    /\ \A k \in 1..Len(node.children) :
          "children" \in DOMAIN node.children[k].val =>
              SortedBelow(node.children[k].val,
                          Append(dir, node.children[k].key))

\* C4: in every directory of the aggregated tree, the root included, the
\* children are in non-decreasing order of total_changes, and children of
\* equal total_changes are in the order of their first insertion.
C4_ChildrenSortedStable == tree # <<>> => SortedBelow(Root, <<>>)

\* a directory of three children: a tie kept in insertion order, and a
\* child the sort moved behind two that were inserted after it
C4_Witness ==
    /\ tree # <<>>
    /\ \E e \in 1..Len(Entries) :
          LET at == Entries[e]
              dir == [d \in 1..(Len(at) - 1) |->
                         EntryAt(SubSeq(at, 1, d)).key]
              sib == SiblingsAt(Root.children, at)
          IN /\ Len(sib) = 3
             /\ TotalOf(sib[1].val) = TotalOf(sib[2].val)
             /\ TotalOf(sib[2].val) < TotalOf(sib[3].val)
             /\ FirstInserted(dir, sib[3].key) < FirstInserted(dir, sib[1].key)

\* C5: a run that ends successfully holds one subsection per added,
\* modified and renamed path, in ascending code-point order of path; the
\* per-file diff calls were made for those paths in that order; a deleted
\* path has no diff call and no subsection, and is a leaf of the tree.
C5_DetailSections ==
    /\ \A k \in 1..Len(DiffCallPaths) : DiffCallPaths[k] \notin DeletedPaths
    /\ pc = "done" =>
          /\ Len(SectionPaths) = Cardinality(ContentPaths)
          /\ {SectionPaths[k] : k \in 1..Len(SectionPaths)} = ContentPaths
          /\ \A k \in 1..(Len(SectionPaths) - 1) :
                StrLess(SectionPaths[k], SectionPaths[k + 1])
          /\ DiffCallPaths = SectionPaths
          /\ \A d \in DeletedPaths :
                /\ \A k \in 1..Len(SectionPaths) : SectionPaths[k] # d
                /\ HasLeaf(Root.children, Split(d), "Deleted")

\* a finished run whose sections are not in listing order, with a deleted
\* path in the tree
C5_Witness ==
    /\ pc = "done"
    /\ Len(SectionPaths) = 2
    /\ SectionPaths # added \o modified \o [k \in 1..Len(renamed) |-> renamed[k][2]]
    /\ DeletedPaths # {}

\* C6: every tree line has the corner connector exactly when its entry is
\* the last child of its parent, and its indent has, per ancestor from the
\* top down, four spaces if that ancestor was a last child and the bar
\* unit if not.
C6_ConnectorsAndIndent ==
    tree # <<>> =>
        /\ Len(TreeLines) = Len(Entries)
        /\ \A k \in 1..Len(Entries) :
              LET at == Entries[k]
                  line == TreeLines[k]
              IN /\ line.name = EntryAt(at).key
                 /\ line.connector = IF IsLastChild(at) THEN Corner ELSE Branch
                 /\ Len(line.indent) = Len(at) - 1
                 /\ \A d \in 1..(Len(at) - 1) :
                       line.indent[d] = IF IsLastChild(SubSeq(at, 1, d))
                                        THEN Blank ELSE Bar

\* lines at depth three under both kinds of ancestors
C6_Witness ==
    /\ tree # <<>>
    /\ \E k \in 1..Len(TreeLines) :
          /\ TreeLines[k].indent = <<Bar, Bar>>
          /\ TreeLines[k].connector = Corner
    /\ \E k \in 1..Len(TreeLines) :
          /\ TreeLines[k].indent = <<Bar>>
          /\ TreeLines[k].connector = Branch

\* C7: the line of a Renamed file shows its name, its old path and the
\* label Renamed and neither count; the line of any other file shows its
\* status and its own additions and deletions.
C7_RenamedHidesCounts ==
    tree # <<>> =>
        \A k \in 1..Len(Entries) :
            LET entry == EntryAt(Entries[k])
                line == TreeLines[k]
            IN "status" \in DOMAIN entry.val =>
                  /\ line.name = entry.key
                  /\ line.label = entry.val.status
                  /\ IF entry.val.status = "Renamed"
                     THEN /\ "additions" \notin DOMAIN line
                          /\ "deletions" \notin DOMAIN line
                          /\ "old_path" \in DOMAIN line
                          /\ line.old_path = entry.val.old_path
                     ELSE /\ "old_path" \notin DOMAIN line
                          /\ "additions" \in DOMAIN line
                          /\ "deletions" \in DOMAIN line
                          /\ line.additions = entry.val.additions
                          /\ line.deletions = entry.val.deletions

\* a renamed file with counts, next to another file with counts
C7_Witness ==
    /\ tree # <<>>
    /\ \E k \in 1..Len(Entries) :
          LET c == EntryAt(Entries[k]).val
          IN /\ "status" \in DOMAIN c
             /\ c.status = "Renamed"
             /\ c.additions > 0 /\ c.deletions > 0
    /\ \E k \in 1..Len(Entries) :
          LET c == EntryAt(Entries[k]).val
          IN /\ "status" \in DOMAIN c
             /\ c.status = "Modified"
             /\ c.additions > 0 /\ c.deletions > 0

\* C8: when the listing is empty and the stats call succeeded, no tree is
\* built, no per-file diff call is made, the document is the preamble, the
\* no-changes marker, the detail heading and the nothing-to-display note,
\* and the run goes on to write the report once.
C8_EmptyChangeSet ==
    (/\ ListedPaths = {}
     /\ Len(calls) >= 2
     /\ calls[2].outcome = "ok") =>
        /\ tree = <<>>
        /\ DiffCallPaths = <<>>
        /\ Kinds(md_content) =
              <<"title", "generated_on", "introduction", "summary_heading",
                "no_changes", "rule", "detail_heading", "nothing_to_display">>
        /\ pc \in {"write", "done"}
        /\ pc = "done" => (writes = 1 /\ exit_code = <<0>>)

C8_Witness ==
    /\ ListedPaths = {}
    /\ pc = "done"
    /\ writes = 1

\* node and every directory below it aggregate their direct children
RECURSIVE AggregatesBelow(_)
AggregatesBelow(node) ==
    /\ node.stats.additions = SumOwnOrAggregate(node.children, "additions")
    /\ node.stats.deletions = SumOwnOrAggregate(node.children, "deletions")
    /\ node.stats.total_changes = node.stats.additions + node.stats.deletions
    /\ \A k \in 1..Len(node.children) :
          "children" \in DOMAIN node.children[k].val =>
              AggregatesBelow(node.children[k].val)

\* C9: every directory's aggregate additions and deletions are the sums,
\* over its direct children, of a file's own and of a directory's
\* aggregate, and its aggregate total_changes is their sum; this holds of
\* the tree as sorted.
C9_DirectoryAggregates == tree # <<>> => AggregatesBelow(Root)

\* a directory holding a file with counts and a directory with counts
C9_Witness ==
    /\ tree # <<>>
    /\ \E e \in 1..Len(Entries) :
          LET sib == SiblingsAt(Root.children, Entries[e])
          IN /\ Len(Entries[e]) = 2
             /\ \E x \in 1..Len(sib) :
                   /\ "children" \in DOMAIN sib[x].val
                   /\ sib[x].val.stats.additions > 0
                   /\ sib[x].val.stats.deletions > 0
             /\ \E x \in 1..Len(sib) :
                   /\ "status" \in DOMAIN sib[x].val
                   /\ sib[x].val.additions > 0

\* at and below node: a directory above a Renamed leaf aggregates all its
\* leaves, and a Renamed leaf is keyed and placed by its own counts
RECURSIVE RenamedCountedBelow(_)
RenamedCountedBelow(node) ==
    /\ HasRenamedLeaf(node) =>
          /\ node.stats.additions = LeafSum(node, "additions")
          /\ node.stats.deletions = LeafSum(node, "deletions")
    /\ \A k \in 1..Len(node.children) :
          LET c == node.children[k].val
          IN IF "children" \in DOMAIN c THEN RenamedCountedBelow(c)
             ELSE c.status = "Renamed" =>
                    /\ c.total_changes = c.additions + c.deletions
                    /\ \A j \in 1..Len(node.children) :
                          TotalOf(node.children[j].val) < c.total_changes
                              => j < k

\* C10: a Renamed file's total_changes is its additions plus deletions,
\* every sibling of smaller total_changes precedes it, and every directory
\* above it aggregates the counts of all its leaves, the renamed included.
C10_RenamedCountsOrder == tree # <<>> => RenamedCountedBelow(Root)

\* a renamed file with counts, inserted before a sibling of smaller total
\* that the sort put ahead of it, inside a directory
C10_Witness ==
    /\ tree # <<>>
    /\ \E e \in 1..Len(Entries) :
          LET at == Entries[e]
              c == EntryAt(at).val
              sib == SiblingsAt(Root.children, at)
          IN /\ Len(at) = 2
             /\ "status" \in DOMAIN c
             /\ c.status = "Renamed"
             /\ c.total_changes = 2
             /\ at[2] > 1
             /\ "status" \in DOMAIN sib[1].val
             /\ sib[1].val.status = "Deleted"

====
